---- MODULE Spec2Model ----
(***************************************************************************)
(* Model of the Gemini API server of src/index.js: four POST endpoints     *)
(* (/generate-text, /generate-from-image, /generate-from-document,         *)
(* /generate-from-audio), the multer upload directory, the remote model    *)
(* call and the cleanup of the uploaded file.                              *)
(*                                                                         *)
(* A handler is an async function.  Its code between two awaits runs to    *)
(* completion on the single JavaScript thread (readFileSync, existsSync    *)
(* and unlinkSync are synchronous), so each action below is one such       *)
(* segment; requests interleave only at `await model.generateContent` and  *)
(* `await result.response`.                                                *)
(***************************************************************************)
EXTENDS Integers, Sequences, FiniteSets, TLC

\* ------------------------------------------------------------------ bounds
NReq == 2                       \* requests the server receives in one run
Req == 1 .. NReq

\* ---------------------------------------------------------------- constants
DefaultPrompt == "Describe the image"
DocumentInstruction == "Analyze this document:"
AudioInstruction == "Transcribe or analyze the following audio:"
NoImageMsg == "No image file uploaded."
NoDocumentMsg == "No document file uploaded."
NoAudioMsg == "No audio file uploaded."
ImageLabel == "Error processing image:"
DocumentLabel == "Error processing document:"
AudioLabel == "Error processing audio:"
ReferenceErrorMsg == "fileToGenerativePart is not defined"

Endpoints == {"text", "image", "document", "audio"}
FileEndpoints == {"image", "document", "audio"}

\* ----------------------------------------------------- environment's values
Undefined == "<undefined>"                   \* a JavaScript undefined
Prompts == {"", "What is in it?"}            \* prompt strings a client sends
MimeTypes == {"application/pdf"}             \* req.file.mimetype of an upload
Texts == {"Summary: ...", "A cat."}          \* texts the provider returns
ProviderErrors == {"quota exceeded"}         \* messages of provider errors
ReadErrors == {"ENOENT: no such file or directory"}
UnlinkErrors == {"EPERM: operation not permitted"}
\* what the JavaScript runtime does with a rejected handler promise:
\*   "crash"   Express 4 on Node >= 15: the unhandled rejection ends the process
\*   "warn"    Express 4 on Node 14: a warning is printed, nothing else happens
\*   "forward" Express 5: the rejection goes to the default error handler
Runtimes == {"crash", "warn", "forward"}

NoFile == 0                                  \* req.file is undefined
Paths == 1 .. NReq                           \* file names under uploads/
Falsy == {Undefined, ""}                     \* the prompts `||` replaces

VARIABLES
    reqs,      \* per request: position in its handler, inputs, response
    disk,      \* the files that exist under uploads/
    used,      \* the file names multer has generated so far
    up,        \* the server process is running
    runtime    \* the build's treatment of a rejected handler promise

vars == <<reqs, disk, used, up, runtime>>

NoBody == [kind |-> "none", field |-> "", val |-> ""]

InitReq ==
    [pc |-> "idle", endpoint |-> "text", file |-> NoFile, mimetype |-> Undefined,
     prompt |-> Undefined, instr |-> Undefined, parts |-> <<>>,
     status |-> 0, body |-> NoBody,
     providerText |-> Undefined, providerErr |-> Undefined,
     encErr |-> Undefined, thrown |-> Undefined, logged |-> {},
     finallyRuns |-> 0, unlinks |-> 0, unlinkErr |-> Undefined]

Init ==
    /\ reqs = [r \in Req |-> InitReq]
    /\ disk = {}
    /\ used = {}
    /\ up = TRUE
    /\ runtime \in Runtimes

\* ---------------------------------------------------------------- responses
\* a handler that answers with result.text, which is undefined
ResJsonOutputOfResult(q, text) ==
    [q EXCEPT !.status = 200,
              !.body = [kind |-> "json", field |-> "output", val |-> Undefined]]

\* res.json({ output: text }): the status stays at its default, 200
ResJsonOutput(q, text) ==
    [q EXCEPT !.status = 200,
              !.body = [kind |-> "json", field |-> "output", val |-> text]]

\* res.status(500).json({ error: error.message })
ResJsonError(q, message) ==
    [q EXCEPT !.status = 500,
              !.body = [kind |-> "json", field |-> "error", val |-> message]]

\* res.status(400).send(text): a plain-text body
ResSend400(q, text) ==
    [q EXCEPT !.status = 400,
              !.body = [kind |-> "text", field |-> "", val |-> text]]

\* ------------------------------------------------------------ content parts
Text(s) == [kind |-> "text", text |-> s, data |-> NoFile, mimeType |-> ""]

\* { inlineData: { data: <base64 of the file's bytes>, mimeType } }; the bytes
\* are named by the file they were read from
InlineData(path, mime) ==
    [kind |-> "inlineData", text |-> "", data |-> path, mimeType |-> mime]

\* fileToGenerativePart is called at line 45 and defined nowhere: index.js
\* requires only express, dotenv, multer, fs, path and @google/generative-ai,
\* so evaluating the call throws a ReferenceError
fileToGenerativePart(path, mime) ==
    [threw |-> TRUE, error |-> ReferenceErrorMsg, part |-> InlineData(path, mime)]

\* ------------------------------------------------------------- upload store
\* multer({ dest: "uploads/" }) names each stored file with fresh random
\* bytes: a name it has not generated before.  Names are opaque, so the
\* least unused one stands for any of them.
\* a store that keeps every upload under one fixed name
FixedPath == CHOOSE p \in Paths : \A o \in Paths : p <= o

NewPath == CHOOSE p \in Paths \ used : \A o \in Paths \ used : p <= o

ExistsSync(path) == path # NoFile /\ path \in disk

\* a handler without the check of req.file
NeverMissing(q) == FALSE

\* `!req.file`
MissingFile(q) == q.file = NoFile

Label(endpoint) ==
    CASE endpoint = "image" -> ImageLabel
      [] endpoint = "document" -> DocumentLabel
      [] endpoint = "audio" -> AudioLabel
      [] OTHER -> ""

\* ------------------------------------------------------ the end of a handler
\* the handler's promise resolves
Returned(r, q) ==
    /\ reqs' = [reqs EXCEPT ![r] = [q EXCEPT !.pc = "done"]]
    /\ up' = up

\* the handler's promise rejects with q.thrown: nothing in index.js catches it
Rejected(r, q) ==
    LET sent == IF runtime = "forward" /\ q.status = 0
                THEN [q EXCEPT !.status = 500,
                               !.body = [kind |-> "html", field |-> "",
                                         val |-> "Internal Server Error"]]
                ELSE q
    IN /\ reqs' = [reqs EXCEPT ![r] = [sent EXCEPT !.pc = "rejected"]]
       /\ up' = (runtime # "crash")

\* catch (error) of /generate-text: no logging
TextCatch(q, message) == ResJsonError(q, message)

\* a catch block that forgets res.status(500)
CatchWithoutStatus(q, message) ==
    [q EXCEPT !.logged = @ \cup {Label(q.endpoint)},
              !.status = 200,
              !.body = [kind |-> "json", field |-> "error", val |-> message]]

\* catch (error) of the three file handlers: console.error, then the 500
Catch(q, message) ==
    ResJsonError([q EXCEPT !.logged = @ \cup {Label(q.endpoint)}], message)

\* finally { if (req.file && fs.existsSync(path)) fs.unlinkSync(path) }
Finally(r, q) ==
    LET f == [q EXCEPT !.finallyRuns = @ + 1]
    IN IF ExistsSync(f.file)
       THEN \/ /\ disk' = disk \ {f.file}
               /\ Returned(r, [f EXCEPT !.unlinks = @ + 1])
            \/ \E m \in UnlinkErrors :
                 /\ disk' = disk
                 /\ Rejected(r, [f EXCEPT !.unlinkErr = m, !.thrown = m])
       ELSE /\ disk' = disk
            /\ Returned(r, f)

\* what follows the try block's failure, per endpoint
Failed(r, q, message) ==
    IF q.endpoint = "text"
    THEN /\ disk' = disk
         /\ Returned(r, TextCatch(q, message))
    ELSE Finally(r, Catch(q, message))

\* what follows res.json({ output }), per endpoint
Succeeded(r, q, text) ==
    IF q.endpoint = "text"
    THEN /\ disk' = disk
         /\ Returned(r, ResJsonOutput(q, text))
    ELSE Finally(r, ResJsonOutput(q, text))

\* --------------------------------------------------------- request arrival
\* requests are numbered in their order of arrival
Arrives(r) ==
    /\ up
    /\ reqs[r].pc = "idle"
    /\ \A o \in Req : o < r => reqs[o].pc # "idle"

\* express.json() parses the body of a POST /generate-text
JsonBody(r) ==
    /\ Arrives(r)
    /\ \E p \in Prompts \cup {Undefined} :
         reqs' = [reqs EXCEPT ![r] = [@ EXCEPT !.pc = "uploaded",
                                               !.endpoint = "text",
                                               !.prompt = p]]
    /\ UNCHANGED <<disk, used, up, runtime>>

\* upload.single(field) parses a multipart request: a file under the field is
\* written to uploads/ and becomes req.file; the form's text fields become
\* req.body.  Only the image handler reads req.body.prompt.
UploadSingle(r) ==
    /\ Arrives(r)
    /\ \E e \in FileEndpoints, hasFile \in BOOLEAN, m \in MimeTypes :
       \E p \in (IF e = "image" THEN Prompts \cup {Undefined} ELSE {Undefined}) :
         IF hasFile
         THEN /\ reqs' = [reqs EXCEPT ![r] = [@ EXCEPT !.pc = "uploaded",
                                                    !.endpoint = e,
                                                    !.prompt = p,
                                                    !.file = NewPath,
                                                    !.mimetype = m]]
              /\ disk' = disk \cup {NewPath}
              /\ used' = used \cup {NewPath}
         ELSE /\ reqs' = [reqs EXCEPT ![r] = [@ EXCEPT !.pc = "uploaded",
                                                    !.endpoint = e,
                                                    !.prompt = p]]
              /\ UNCHANGED <<disk, used>>
    /\ UNCHANGED <<up, runtime>>

\* something outside the server removes a file from uploads/
EnvRemove ==
    /\ up
    /\ \E p \in disk : disk' = disk \ {p}
    /\ UNCHANGED <<reqs, used, up, runtime>>

\* ---------------------------------------------------------------- handlers
Handles(r, endpoint) ==
    /\ up
    /\ reqs[r].pc = "uploaded"
    /\ reqs[r].endpoint = endpoint

\* model.generateContent(parts) is called and awaited
Awaiting(r, q, parts) ==
    /\ reqs' = [reqs EXCEPT ![r] = [q EXCEPT !.pc = "awaitGen", !.parts = parts]]
    /\ UNCHANGED <<disk, up>>

\* POST /generate-text, up to the await
GenerateText(r) ==
    /\ Handles(r, "text")
    /\ Awaiting(r, reqs[r], <<Text(reqs[r].prompt)>>)
    /\ UNCHANGED <<used, runtime>>

\* POST /generate-from-image, up to the await
GenerateFromImage(r) ==
    /\ Handles(r, "image")
    /\ LET q == [reqs[r] EXCEPT !.instr = IF reqs[r].prompt \in Falsy
                                          THEN DefaultPrompt
                                          ELSE reqs[r].prompt]
       IN IF MissingFile(q)
          THEN /\ disk' = disk
               /\ Returned(r, ResSend400(q, NoImageMsg))
          ELSE LET image == fileToGenerativePart(q.file, q.mimetype)
               IN IF image.threw
                  THEN /\ disk' = disk
                       /\ Rejected(r, [q EXCEPT !.encErr = image.error,
                                                !.thrown = image.error])
                  ELSE Awaiting(r, q, <<Text(q.instr), image.part>>)
    /\ UNCHANGED <<used, runtime>>

\* fs.readFileSync(filePath) and the building of the inline part, inside try
ReadAndCall(r, q, instruction) ==
    \/ /\ ExistsSync(q.file)
       /\ Awaiting(r, q, <<Text(instruction), InlineData(q.file, q.mimetype)>>)
    \/ \E m \in ReadErrors : Failed(r, [q EXCEPT !.encErr = m, !.thrown = m], m)

\* POST /generate-from-document, up to the await
GenerateFromDocument(r) ==
    /\ Handles(r, "document")
    /\ IF MissingFile(reqs[r])
       THEN /\ disk' = disk
            /\ Returned(r, ResSend400(reqs[r], NoDocumentMsg))
       ELSE ReadAndCall(r, reqs[r], DocumentInstruction)
    /\ UNCHANGED <<used, runtime>>

\* POST /generate-from-audio, up to the await
GenerateFromAudio(r) ==
    /\ Handles(r, "audio")
    /\ IF MissingFile(reqs[r])
       THEN /\ disk' = disk
            /\ Returned(r, ResSend400(reqs[r], NoAudioMsg))
       ELSE ReadAndCall(r, reqs[r], AudioInstruction)
    /\ UNCHANGED <<used, runtime>>

\* `await model.generateContent(...)` settles
GenerateContentSettles(r) ==
    /\ up
    /\ reqs[r].pc = "awaitGen"
    /\ \/ /\ reqs' = [reqs EXCEPT ![r].pc = "awaitResp"]
          /\ UNCHANGED <<disk, up>>
       \/ \E m \in ProviderErrors :
            Failed(r, [reqs[r] EXCEPT !.providerErr = m, !.thrown = m], m)
    /\ UNCHANGED <<used, runtime>>

\* `await result.response` settles and response.text() returns or throws
ResponseSettles(r) ==
    /\ up
    /\ reqs[r].pc = "awaitResp"
    /\ \/ \E t \in Texts :
            Succeeded(r, [reqs[r] EXCEPT !.providerText = t], t)
       \/ \E m \in ProviderErrors :
            Failed(r, [reqs[r] EXCEPT !.providerErr = m, !.thrown = m], m)
    /\ UNCHANGED <<used, runtime>>

Next ==
    \/ \E r \in Req : JsonBody(r)
    \/ \E r \in Req : UploadSingle(r)
    \/ \E r \in Req : GenerateText(r)
    \/ \E r \in Req : GenerateFromImage(r)
    \/ \E r \in Req : GenerateFromDocument(r)
    \/ \E r \in Req : GenerateFromAudio(r)
    \/ \E r \in Req : GenerateContentSettles(r)
    \/ \E r \in Req : ResponseSettles(r)
    \/ EnvRemove

Spec == Init /\ [][Next]_vars

\* ------------------------------------------------------------------ claims
Finished(q) == q.pc \in {"done", "rejected"}
HadFile(q) == q.endpoint \in FileEndpoints /\ q.file # NoFile
JsonError(message) == [kind |-> "json", field |-> "error", val |-> message]
JsonOutput(text) == [kind |-> "json", field |-> "output", val |-> text]

\* C1: on each file-accepting endpoint, once a request that carried an
\* uploaded file has finished, the uploaded file no longer exists on disk.
C1_UploadGoneWhenFinished ==
    \A r \in Req :
        (Finished(reqs[r]) /\ HadFile(reqs[r])) => reqs[r].file \notin disk

C3_MissingFile ==
    /\ [](\A r \in Req :
            (reqs[r].endpoint \in FileEndpoints /\ reqs[r].pc # "idle"
             /\ reqs[r].file = NoFile) =>
                /\ reqs[r].parts = <<>>
                /\ reqs[r].pc \in {"uploaded", "done"}
                /\ reqs[r].pc = "done" =>
                       /\ reqs[r].status = 400
                       /\ reqs[r].body.kind = "text")
    /\ [][\A r \in Req :
            (reqs'[r] # reqs[r] /\ reqs'[r].endpoint \in FileEndpoints
             /\ reqs'[r].file = NoFile) => disk' = disk]_vars

C3_Witness ==
    \E r \in Req :
        /\ reqs[r].endpoint \in FileEndpoints
        /\ reqs[r].file = NoFile
        /\ reqs[r].pc = "done"
        /\ reqs[r].status = 400
        /\ disk # {}

C5_EncodingFailureIs500 ==
    \A r \in Req :
        (reqs[r].encErr # Undefined /\ Finished(reqs[r])) =>
            /\ reqs[r].status = 500
            /\ reqs[r].body.kind = "json"
            /\ reqs[r].body.field = "error"

\* C6: after a request has failed, for whatever cause, the server process is
\* still running (and so still accepts the requests that follow).
C6_ServerKeepsRunning ==
    \A r \in Req :
        (reqs[r].status \in {400, 500} \/ reqs[r].thrown # Undefined) => up

\* C7: requests in flight at the same time hold distinct temporary files, and
\* a step of a request removes no file but the request's own.
C7_Isolation ==
    /\ [](\A r, o \in Req :
            (r # o /\ HadFile(reqs[r]) /\ HadFile(reqs[o])) =>
                reqs[r].file # reqs[o].file)
    /\ [][\A r \in Req :
            reqs'[r] # reqs[r] => (disk \ disk') \subseteq ({reqs[r].file} \ {NoFile})]_vars

C7_Witness ==
    \E r, o \in Req :
        /\ r # o
        /\ HadFile(reqs[r]) /\ reqs[r].pc = "done" /\ reqs[r].unlinks = 1
        /\ HadFile(reqs[o]) /\ reqs[o].pc \in {"awaitGen", "awaitResp"}
        /\ reqs[o].file \in disk

\* C8: an image request that carries a file passes to the provider, as the
\* first content part, "Describe the image" when the prompt field is omitted
\* and the supplied prompt otherwise.
C8_InstructionPassed ==
    \A r \in Req :
        (reqs[r].endpoint = "image" /\ HadFile(reqs[r]) /\ Finished(reqs[r])) =>
            /\ Len(reqs[r].parts) >= 1
            /\ reqs[r].parts[1] = Text(IF reqs[r].prompt = Undefined
                                       THEN DefaultPrompt
                                       ELSE reqs[r].prompt)

\* C9: for every request that was given an uploaded file, release (the
\* cleanup block) is performed exactly once on every exit path of the handler.
C9_ReleasedExactlyOnce ==
    \A r \in Req :
        (HadFile(reqs[r]) /\ Finished(reqs[r])) => reqs[r].finallyRuns = 1

\* C10: a failure to delete the temporary file does not raise out of the
\* handler and does not stop the server: the handler still returns normally.
C10_CleanupFailureContained ==
    \A r \in Req :
        reqs[r].unlinkErr # Undefined => (reqs[r].pc = "done" /\ up)

====
